---- MODULE Spec2Model ----
(***************************************************************************)
(* Model of tiny-iterator (src/lib/iterator.js): a module-level singleton  *)
(* `internals` holding items / fn / done / isAborted, the public           *)
(* iterate(items, fn, done), and the two closures handed to the user's     *)
(* step function for every dispatched index: next (advance) and            *)
(* next.abort.                                                             *)
(*                                                                         *)
(* Every library function ends in a tail call into user code (fn or done)  *)
(* and does nothing after that call returns, so a handle invoked           *)
(* synchronously from inside fn performs exactly the same sequence of      *)
(* reads and writes of `internals` as the same handle invoked later from   *)
(* a timer.  One public call (iterate, next, abort) is therefore one       *)
(* atomic action; a synchronous chain is a run of consecutive actions.     *)
(*                                                                         *)
(* Indices are 0-based as in the source; position i of a JavaScript array  *)
(* is element i + 1 of the TLA+ sequence.                                  *)
(***************************************************************************)
EXTENDS Integers, Sequences, FiniteSets

\* ---------------------------------------------------------------- bounds
\* Longest items array handed to iterate.
MaxLen == 3
\* Element / replacement values are 1..MaxVal.
MaxVal == 2
\* Total number of public calls (iterate, next, abort) in a behaviour.
MaxOps == 4

\* ------------------------------------------------------------ value space
\* JavaScript `undefined`: an omitted newVal, an omitted done, an array hole.
Undef == 0
\* JavaScript `null`, the value reset() stores in fn and done.
Null == 0
Values == 1 .. MaxVal
NewVals == Values \cup {Undef}

\* The arrays a caller passes as `items`: one of every length 0..MaxLen, its
\* elements cycling through the values so that neighbours differ.  The code
\* never inspects an element (only `typeof newVal`), so the elements serve
\* to tell positions apart.
ItemsOfLen(n) == [k \in 1 .. n |-> ((k - 1) % MaxVal) + 1]
ItemsInputs == {ItemsOfLen(n) : n \in 0 .. MaxLen}

\* ------------------------------------------------------------------ state
VARIABLES
  items,      \* internals.items (the array contents; meaningless when itemsNull)
  itemsNull,  \* internals.items === null
  fn,         \* internals.fn: Null, or the number of the iterate call that registered it
  done,       \* internals.done: Null, noop, or the number of the registering iterate call
  isAborted,  \* internals.isAborted
  handles,    \* every `next` closure minted by internals.step, in minting order
  stepLog,    \* history: calls of the user's fn since the latest iterate call
  doneLog,    \* history: calls of the user's done since the latest iterate call
  orig,       \* history: the array as it was passed to the latest iterate call
  run,        \* history: number of iterate calls made so far
  last,       \* history: the latest public call and whether it threw
  okRun,      \* history: number of the latest iterate call that passed validation
  ops         \* history: number of public calls made so far

vars == <<items, itemsNull, fn, done, isAborted, handles, stepLog, doneLog,
          orig, run, last, okRun, ops>>

\* function noop() {}: the done substituted when the caller omits it.
noop == 0 - 1

\* The mutable part of the program that the library functions read and write,
\* gathered in one record so that each function is an operator from world to
\* world.  threw: a TypeError is propagating (the rest of the call is skipped).
World ==
  [items |-> items, itemsNull |-> itemsNull, fn |-> fn, done |-> done,
   isAborted |-> isAborted, handles |-> handles, stepLog |-> stepLog,
   doneLog |-> doneLog, run |-> run, threw |-> FALSE]

Throw(w) == [w EXCEPT !.threw = TRUE]

\* arr[i] = v on a JavaScript array: writing at or past the end grows the
\* array, the skipped positions being holes (read back as undefined).
ArraySet(arr, i, v) ==
  [k \in 1 .. (IF i + 1 > Len(arr) THEN i + 1 ELSE Len(arr)) |->
     IF k = i + 1 THEN v
     ELSE IF k <= Len(arr) THEN arr[k] ELSE Undef]

\* arr[i] on a JavaScript array.
ArrayGet(arr, i) == IF i < Len(arr) THEN arr[i + 1] ELSE Undef

\* --------------------------------------------------- the internals functions
\* internals.step(i): mints the closure pair for index i.  `i` is the variable
\* the `next` closure captures and post-increments on every live call; `mint`
\* is the copy internals.abort(i) captured when the pair was made.  run,
\* calls and used are history: the iterate call current at minting, the
\* invocations of this pair since the latest iterate call, and whether the
\* pair has ever been invoked.
step(w, i) ==
  [w EXCEPT !.handles = Append(@, [run |-> w.run, mint |-> i, i |-> i,
                                   calls |-> <<>>, used |-> FALSE])]

\* internals.iterate(i): internals.fn(i, internals.items[i], internals.step(i)).
\* A null fn (left by an iterate call that failed validation) makes the call
\* throw; the closure minted for it is then unreachable and is not recorded.
internalsIterate(w, i) ==
  IF w.fn = Null THEN Throw(w)
  ELSE [step(w, i) EXCEPT
          !.stepLog = Append(@, [idx |-> i, val |-> ArrayGet(w.items, i),
                                 fn |-> w.fn, at |-> ops + 1])]

\* internals.finish(): internals.done(internals.items).
finish(w) ==
  IF w.done = Null THEN Throw(w)
  ELSE IF w.done = noop THEN w
  ELSE [w EXCEPT !.doneLog = Append(@, [items |-> w.items, done |-> w.done,
                                         at |-> ops + 1])]

\* Variant of updateVal without the `typeof newVal !== 'undefined'` test.
updateValAlways(w, i, newVal) ==
  IF w.itemsNull THEN Throw(w)
  ELSE [w EXCEPT !.items = ArraySet(@, i, newVal)]

\* internals.updateVal(i, newVal).
updateVal(w, i, newVal) ==
  IF newVal # Undef
    THEN IF w.itemsNull THEN Throw(w)
         ELSE [w EXCEPT !.items = ArraySet(@, i, newVal)]
    ELSE w

\* The test `i < internals.items.length` of next, after i++.
nextInBounds(w, i) == i < Len(w.items)

\* Variant of next that writes with ++i instead of i++.
nextPreIncrement(w, h, newVal) ==
  IF ~w.isAborted
    THEN LET i  == w.handles[h].i
             w1 == [w EXCEPT !.handles[h].i = i + 1]
             w2 == updateVal(w1, i + 1, newVal)
         IN  IF w2.threw THEN w2
             ELSE IF w2.itemsNull THEN Throw(w2)
             ELSE IF nextInBounds(w2, i + 1) THEN internalsIterate(w2, i + 1)
             ELSE finish(w2)
    ELSE w

\* Variant of next without the isAborted test.
nextUnguarded(w, h, newVal) ==
  LET i  == w.handles[h].i
      w1 == [w EXCEPT !.handles[h].i = i + 1]
      w2 == updateVal(w1, i, newVal)
  IN  IF w2.threw THEN w2
      ELSE IF w2.itemsNull THEN Throw(w2)
      ELSE IF nextInBounds(w2, i + 1) THEN internalsIterate(w2, i + 1)
      ELSE finish(w2)

\* The closure `next` of handle h, called with newVal.
next(w, h, newVal) ==
  IF ~w.isAborted
    THEN LET i  == w.handles[h].i
             w1 == [w EXCEPT !.handles[h].i = i + 1]
             w2 == updateVal(w1, i, newVal)
         IN  IF w2.threw THEN w2
             ELSE IF w2.itemsNull THEN Throw(w2)
             ELSE IF nextInBounds(w2, i + 1) THEN internalsIterate(w2, i + 1)
             ELSE finish(w2)
    ELSE w

\* Variant of abort that forgets the updateVal call.
abortNoUpdate(w, h, newVal) ==
  finish([w EXCEPT !.isAborted = TRUE])

\* Variant of abort that forgets the finish call.
abortNoFinish(w, h, newVal) ==
  updateVal([w EXCEPT !.isAborted = TRUE], w.handles[h].mint, newVal)

\* Variant of abort that writes at the index variable of `next` (the one
\* next post-increments) instead of its own copy.
abortSharedIndex(w, h, newVal) ==
  LET w1 == [w EXCEPT !.isAborted = TRUE]
      w2 == updateVal(w1, w.handles[h].i, newVal)
  IN  IF w2.threw THEN w2 ELSE finish(w2)

\* Variant of abort that forgets to set isAborted.
abortNoFlag(w, h, newVal) ==
  LET w2 == updateVal(w, w.handles[h].mint, newVal)
  IN  IF w2.threw THEN w2 ELSE finish(w2)

\* Variant of abort that does nothing once the run is aborted.
abortGuarded(w, h, newVal) ==
  IF w.isAborted THEN w
  ELSE LET w1 == [w EXCEPT !.isAborted = TRUE]
           w2 == updateVal(w1, w.handles[h].mint, newVal)
       IN  IF w2.threw THEN w2 ELSE finish(w2)

\* The closure `abort` attached to handle h, called with newVal.
abort(w, h, newVal) ==
  LET w1 == [w EXCEPT !.isAborted = TRUE]
      w2 == updateVal(w1, w.handles[h].mint, newVal)
  IN  IF w2.threw THEN w2 ELSE finish(w2)

\* internals.reset().
reset(w) ==
  [w EXCEPT !.items = <<>>, !.itemsNull = TRUE, !.fn = Null, !.done = Null,
            !.isAborted = FALSE]

\* Arguments of the public iterate.  itemsArg: [isArray, arr]; fnArg and
\* doneArg: the `typeof` of the value passed ("undefined" = omitted).
ItemsArgs ==
  {[isArray |-> TRUE, arr |-> a] : a \in ItemsInputs}
    \cup {[isArray |-> FALSE, arr |-> <<>>]}
FnArgs == {"function", "other"}
DoneArgs == {"function", "undefined", "other"}

\* validateItemsParam / validateFnParam / validateDoneParam: TRUE when the
\* argument is accepted, FALSE when a TypeError is thrown.
validateItemsParam(itemsArg) == itemsArg.isArray
validateFnParam(fnArg) == fnArg = "function"
\* Variant of validateDoneParam that rejects an omitted done.
validateDoneParamStrict(doneArg) == doneArg = "function"
validateDoneParam(doneArg) == doneArg = "undefined" \/ doneArg = "function"
\* The value validateDoneParam returns when it accepts: done itself, or noop.
doneValue(w, doneArg) == IF doneArg = "undefined" THEN noop ELSE w.run

\* Variant of the public iterate without the `if (items.length)` test.
publicIterateNoLengthTest(w, itemsArg, fnArg, doneArg) ==
  LET w0 == reset(w)
  IN  IF ~validateItemsParam(itemsArg) THEN Throw(w0)
      ELSE LET w1 == [w0 EXCEPT !.items = itemsArg.arr, !.itemsNull = FALSE]
           IN  IF ~validateFnParam(fnArg) THEN Throw(w1)
               ELSE LET w2 == [w1 EXCEPT !.fn = w.run]
                    IN  IF ~validateDoneParam(doneArg) THEN Throw(w2)
                        ELSE internalsIterate(
                               [w2 EXCEPT !.done = doneValue(w2, doneArg)], 0)

\* The public iterate(items, fn, done).
publicIterate(w, itemsArg, fnArg, doneArg) ==
  LET w0 == reset(w)
  IN  IF ~validateItemsParam(itemsArg) THEN Throw(w0)
      ELSE LET w1 == [w0 EXCEPT !.items = itemsArg.arr, !.itemsNull = FALSE]
           IN  IF ~validateFnParam(fnArg) THEN Throw(w1)
               ELSE LET w2 == [w1 EXCEPT !.fn = w.run]
                    IN  IF ~validateDoneParam(doneArg) THEN Throw(w2)
                        ELSE LET w3 == [w2 EXCEPT !.done = doneValue(w2, doneArg)]
                             IN  IF Len(itemsArg.arr) # 0
                                   THEN internalsIterate(w3, 0)
                                   ELSE w3

\* ---------------------------------------------------------------- actions
\* Writes a world back to the variables.
Commit(w) ==
  /\ items' = w.items
  /\ itemsNull' = w.itemsNull
  /\ fn' = w.fn
  /\ done' = w.done
  /\ isAborted' = w.isAborted
  /\ handles' = w.handles
  /\ stepLog' = w.stepLog
  /\ doneLog' = w.doneLog
  /\ run' = w.run

\* The world a new iterate call starts from: the call gets the next run
\* number and the histories of the previous registration are closed.
Fresh ==
  [World EXCEPT !.run = run + 1, !.stepLog = <<>>, !.doneLog = <<>>,
                !.handles = [h \in DOMAIN handles |-> [handles[h] EXCEPT !.calls = <<>>]]]

\* The world in which handle h is invoked: the invocation is noted on it.
Noted(h, op, v) ==
  [World EXCEPT !.handles[h].calls = Append(@, [op |-> op, v |-> v]),
                !.handles[h].used = TRUE]

\* A caller invokes iterate(items, fn, done) with the given arguments.
IterateWith(itemsArg, fnArg, doneArg) ==
  /\ ops < MaxOps
  /\ LET w == publicIterate(Fresh, itemsArg, fnArg, doneArg)
     IN  /\ Commit(w)
         /\ orig' = itemsArg.arr
         /\ last' = [op |-> "iterate", h |-> 0, v |-> Undef, threw |-> w.threw]
         /\ okRun' = IF w.threw THEN okRun ELSE w.run
  /\ ops' = ops + 1

\* A caller invokes iterate with any arguments, valid or not.
Iterate ==
  \E itemsArg \in ItemsArgs, fnArg \in FnArgs, doneArg \in DoneArgs :
    IterateWith(itemsArg, fnArg, doneArg)

\* Some holder of handle h invokes next(newVal).
Next_(h, newVal) ==
  /\ ops < MaxOps
  /\ LET w == next(Noted(h, "next", newVal), h, newVal)
     IN  /\ Commit(w)
         /\ last' = [op |-> "next", h |-> h, v |-> newVal, threw |-> w.threw]
  /\ ops' = ops + 1
  /\ UNCHANGED <<orig, okRun>>

\* Some holder of handle h invokes next.abort(newVal).
Abort_(h, newVal) ==
  /\ ops < MaxOps
  /\ LET w == abort(Noted(h, "abort", newVal), h, newVal)
     IN  /\ Commit(w)
         /\ last' = [op |-> "abort", h |-> h, v |-> newVal, threw |-> w.threw]
  /\ ops' = ops + 1
  /\ UNCHANGED <<orig, okRun>>

CallNext == \E h \in DOMAIN handles, newVal \in NewVals : Next_(h, newVal)
CallAbort == \E h \in DOMAIN handles, newVal \in NewVals : Abort_(h, newVal)

\* The module as loaded: `internals` as its object literal initialises it.
Init ==
  /\ items = <<>>
  /\ itemsNull = TRUE
  /\ fn = Null
  /\ done = Null
  /\ isAborted = FALSE
  /\ handles = <<>>
  /\ stepLog = <<>>
  /\ doneLog = <<>>
  /\ orig = <<>>
  /\ run = 0
  /\ okRun = 0
  /\ last = [op |-> "init", h |-> 0, v |-> Undef, threw |-> FALSE]
  /\ ops = 0

Next == Iterate \/ CallNext \/ CallAbort

Spec == Init /\ [][Next]_vars

\* ------------------------------------------------- vocabulary of the claims
\* The latest iterate call passed validation: a run is registered.
ValidRun == ~itemsNull /\ fn = run /\ done # Null
\* ... and its caller supplied a done callback (so completions are observable).
ObservedRun == ValidRun /\ done = run
\* Handles minted since the latest iterate call.
CurHandles == {h \in DOMAIN handles : handles[h].run = run}
\* A handle minted before the latest iterate call has been invoked since it.
StaleInvoked == \E h \in DOMAIN handles : handles[h].run < run /\ handles[h].calls # <<>>
\* Since the latest iterate call every invocation was made by a step on its
\* own handle pair, at most once per step.
OncePerStep ==
  /\ ~StaleInvoked
  /\ \A h \in CurHandles : Len(handles[h].calls) <= 1
\* Every step dispatched so far has invoked its handle.
AllResponded == \A h \in CurHandles : handles[h].calls # <<>>
\* Every invocation made so far in the run was next(...) / was next().
OnlyNext == \A h \in CurHandles : \A k \in DOMAIN handles[h].calls : handles[h].calls[k].op = "next"
OnlyBareNext ==
  \A h \in CurHandles : \A k \in DOMAIN handles[h].calls :
    handles[h].calls[k] = [op |-> "next", v |-> Undef]
\* The indices passed to fn, in dispatch order.
StepIdx == [k \in DOMAIN stepLog |-> stepLog[k].idx]
\* <<0, 1, ..., n - 1>>
Upto(n) == [k \in 1 .. n |-> k - 1]
\* The handle the step for index j was given (unique under OncePerStep).
HandleOf(j) == CHOOSE h \in CurHandles : handles[h].mint = j
\* What the step for index j passed to its handle.
ArgOf(j) == handles[HandleOf(j)].calls[1].v

\* ------------------------------------------- a well-behaved environment
\* The callers of the claims about well-behaved step functions: iterate is
\* called with valid arguments and a done callback, at any time (also while
\* a step of an earlier call is unanswered: the code accepts that), and
\* every step answers by invoking exactly one of its own two handles exactly
\* once (at once or later: the effect on the state is the same); no handle
\* is invoked otherwise.
\* The steps dispatched and not answered yet, of whichever iterate call.
Pending == {h \in DOMAIN handles : ~handles[h].used}

WBIterate ==
  \E arr \in ItemsInputs :
    IterateWith([isArray |-> TRUE, arr |-> arr], "function", "function")

WBNext == \E h \in Pending, newVal \in NewVals : Next_(h, newVal)
WBAbort == \E h \in Pending, newVal \in NewVals : Abort_(h, newVal)
WBRespond == WBNext \/ WBAbort

NextWB == WBIterate \/ WBNext \/ WBAbort

\* Fairness: a dispatched step does answer (the hypothesis "each step
\* invocation invokes one of its handles").
SpecWB == Init /\ [][NextWB]_vars /\ WF_vars(WBRespond)

\* ------------------------------------------------------------------- C1
\* C1: for a non-empty S, when every step answers by calling next() once with
\* no value, done is invoked exactly once, with an array equal to S element
\* by element; before the last step has answered done has not been invoked.
C1_BareAdvanceCompletes ==
  (ObservedRun /\ orig # <<>> /\ OncePerStep /\ OnlyBareNext) =>
     /\ Len(doneLog) <= 1
     /\ (AllResponded =>
           /\ Len(doneLog) = 1
           /\ doneLog[1].items = orig
           /\ doneLog[1].done = run
           /\ StepIdx = Upto(Len(orig)))
     /\ (~AllResponded => doneLog = <<>>)

\* A run over the longest array completed by bare next() calls only.
C1_Witness ==
  /\ ObservedRun /\ Len(orig) = MaxLen /\ OncePerStep /\ OnlyBareNext
  /\ AllResponded /\ Len(doneLog) = 1

\* ------------------------------------------------------------------- C2
\* What done must receive when every step called next(v) once: v at the
\* steps that passed a defined v, the original element at the others.
ExpectedAfterAdvance ==
  [k \in 1 .. Len(orig) |-> IF ArgOf(k - 1) # Undef THEN ArgOf(k - 1) ELSE orig[k]]

\* C2: for a non-empty S, when every step calls its next handle exactly once,
\* the array done receives holds v at each index whose step called next(v)
\* with v defined and the original element at each index whose step called
\* next() bare.
C2_AdvanceValues ==
  (ObservedRun /\ orig # <<>> /\ OncePerStep /\ OnlyNext /\ AllResponded) =>
     /\ Len(doneLog) = 1
     /\ doneLog[1].items = ExpectedAfterAdvance

\* A completed run in which one step replaced its element by a different
\* value and another step kept its element.
C2_Witness ==
  /\ ObservedRun /\ Len(orig) >= 2 /\ OncePerStep /\ OnlyNext /\ AllResponded
  /\ Len(doneLog) = 1
  /\ \E j \in 0 .. Len(orig) - 1 : ArgOf(j) # Undef /\ ArgOf(j) # orig[j + 1]
  /\ \E j \in 0 .. Len(orig) - 1 : ArgOf(j) = Undef

\* ------------------------------------------------------------------- C3
\* The run so far: the steps below some index each called next once (with
\* or without a value, as `args` allows) and the latest step called abort.
AbortedAt(h, args) ==
  /\ ObservedRun /\ orig # <<>> /\ OncePerStep
  /\ h \in CurHandles
  /\ Len(handles[h].calls) = 1 /\ handles[h].calls[1].op = "abort"
  /\ \A g \in CurHandles \ {h} :
       /\ Len(handles[g].calls) = 1
       /\ handles[g].calls[1].op = "next"
       /\ handles[g].calls[1].v \in args

\* C3, at the abort: when the step for index i calls abort() bare after the
\* earlier steps each called next once, done has been invoked exactly once,
\* within that abort call, the array it received still has the original
\* element at i, and the indices passed to fn are 0..i and no more.
C3_AtAbort ==
  \A h \in DOMAIN handles :
    (AbortedAt(h, NewVals) /\ handles[h].calls[1].v = Undef
       /\ last.op = "abort" /\ last.h = h) =>
      /\ Len(doneLog) = 1
      /\ doneLog[1].at = ops
      /\ doneLog[1].items[handles[h].mint + 1] = orig[handles[h].mint + 1]
      /\ StepIdx = Upto(handles[h].mint + 1)

\* C3, afterwards: once the run is aborted no call dispatches a step for as
\* long as that run is the registered one.
C3_NoStepAfterAbort == (isAborted /\ run' = run) => stepLog' = stepLog

\* C3: both parts.
C3_AbortStops == [](C3_AtAbort) /\ [][C3_NoStepAfterAbort]_vars

\* A run aborted bare at an index past 0 with at least one index left over.
C3_Witness ==
  \E h \in DOMAIN handles :
    /\ AbortedAt(h, NewVals) /\ handles[h].calls[1].v = Undef
    /\ last.op = "abort" /\ last.h = h
    /\ handles[h].mint >= 1
    /\ handles[h].mint + 1 < Len(orig)
    /\ Len(doneLog) = 1

\* ------------------------------------------------------------------- C4
\* C4: when the steps below i each call next() bare and the step for index i
\* calls abort(v) with v defined, done is invoked once with an array holding
\* v at i and the original elements everywhere else, and the indices passed
\* to fn are 0..i and no more.
C4_AbortValue ==
  \A h \in DOMAIN handles :
    (AbortedAt(h, {Undef}) /\ handles[h].calls[1].v # Undef) =>
      /\ Len(doneLog) = 1
      /\ doneLog[1].items = ArraySet(orig, handles[h].mint, handles[h].calls[1].v)
      /\ Len(doneLog[1].items) = Len(orig)
      /\ StepIdx = Upto(handles[h].mint + 1)

\* A three-element run aborted at index 1 with a value that differs from the
\* element it replaces.
C4_Witness ==
  \E h \in DOMAIN handles :
    /\ AbortedAt(h, {Undef})
    /\ handles[h].mint = 1 /\ Len(orig) = 3
    /\ handles[h].calls[1].v # Undef
    /\ handles[h].calls[1].v # orig[2]
    /\ Len(doneLog) = 1 /\ doneLog[1].items[2] = handles[h].calls[1].v

\* ------------------------------------------------------------------- C5
\* The call being made (the step to the primed state) is an invocation of
\* handle pair h.
Invokes(h) == ops' = ops + 1 /\ last'.op \in {"next", "abort"} /\ last'.h = h
InvokesNext(h) == ops' = ops + 1 /\ last'.op = "next" /\ last'.h = h
InvokesAbort(h) == ops' = ops + 1 /\ last'.op = "abort" /\ last'.h = h

\* C5 for one call: a handle minted before the latest (successful) iterate
\* call, invoked now, leaves the new run's items, aborted flag, dispatched
\* steps and done invocations as they are.
C5_StaleCallInert ==
  \A h \in DOMAIN handles :
    (ValidRun /\ handles[h].run < run /\ Invokes(h)) =>
      /\ items' = items
      /\ isAborted' = isAborted
      /\ stepLog' = stepLog
      /\ doneLog' = doneLog

\* C5: a new iterate call isolates the new run from handles of earlier runs.
C5_RunsIsolated == [][C5_StaleCallInert]_vars

\* ------------------------------------------------------------------- C6
\* The registered run has ended: it was aborted, or done has been invoked.
RunEnded == isAborted \/ doneLog # <<>>

\* C6 for one call: a next handle of the run that has been invoked before,
\* invoked again once the run has ended, changes no element and not the
\* length of items, dispatches no step and does not invoke done.  (Stated
\* for runs no stale handle has touched.)
C6_RepeatedNextInert ==
  \A h \in CurHandles :
    (ObservedRun /\ ~StaleInvoked /\ RunEnded /\ InvokesNext(h)
       /\ \E k \in DOMAIN handles[h].calls : handles[h].calls[k].op = "next") =>
      /\ items' = items
      /\ stepLog' = stepLog
      /\ doneLog' = doneLog

\* C6: repeated next after the end of the run is inert.
C6_NextAfterEndInert == [][C6_RepeatedNextInert]_vars

\* ------------------------------------------------------------------- C7
\* C7, in the form a finite run decides: with well-behaved step functions,
\* for the latest iterate call on a non-empty array, done has been invoked
\* at most once, only that call's done has been invoked, and once no
\* dispatched step is left unanswered done has been invoked exactly once.
C7_DoneExactlyOnce ==
  (ObservedRun /\ orig # <<>>) =>
     /\ Len(doneLog) <= 1
     /\ \A k \in DOMAIN doneLog : doneLog[k].done = run
     /\ Pending = {} => Len(doneLog) = 1

\* ------------------------------------------------------------------- C8
\* C8: after a successful iterate call on an empty array, neither fn nor
\* done is ever invoked: not during the call, and not by anything that
\* happens afterwards, for as long as that call is the latest one.
C8_EmptyIsInert ==
  (ValidRun /\ orig = <<>>) =>
     /\ stepLog = <<>>
     /\ doneLog = <<>>

\* ------------------------------------------------------------------- C9
\* C9: within one run (no handle of an earlier run involved), whatever
\* handles are invoked and however often, the indices passed to fn are
\* 0, 1, 2, ... in this order, each once.
C9_AscendingOnce == (ValidRun /\ ~StaleInvoked) => StepIdx = Upto(Len(stepLog))

\* ------------------------------------------------------------------ C10
\* The step invocation recorded as stepLog[k] is in flight: the run is not
\* aborted, done has not been invoked since, and no step for a later index
\* has been dispatched since.
InFlight(k) ==
  /\ ~isAborted
  /\ \A d \in DOMAIN doneLog : doneLog[d].at < stepLog[k].at
  /\ \A m \in DOMAIN stepLog : m > k => stepLog[m].idx <= stepLog[k].idx

\* C10: within one run at most one step invocation is in flight.
C10_OneInFlight ==
  (ObservedRun /\ ~StaleInvoked) =>
     Cardinality({k \in DOMAIN stepLog : InFlight(k)}) <= 1

\* ------------------------------------------------------------------ C11
\* C11: within one run (no handle of an earlier run involved) the length of
\* items stays what it was when iterate was called, whatever handles are
\* invoked, with or without a value.
C11_LengthFixed == (ValidRun /\ ~StaleInvoked) => Len(items) = Len(orig)

\* ------------------------------------------------------------------ C12
\* The call being made is an iterate call that throws.
IterateFails == ops' = ops + 1 /\ last'.op = "iterate" /\ last'.threw

\* C12 for one call: an iterate call that fails validation while a run is
\* in progress (a step is unanswered) leaves items, fn, done and the aborted
\* flag as they were.
C12_FailedCallNoEffect ==
  (ValidRun /\ Pending # {} /\ IterateFails) =>
    /\ itemsNull' = itemsNull
    /\ items' = items
    /\ fn' = fn
    /\ done' = done
    /\ isAborted' = isAborted

\* C12: a failing iterate call has no side effect on the run-state.
C12_ValidationAtomic == [][C12_FailedCallNoEffect]_vars

\* ------------------------------------------------------------------ C13
\* The arguments the claim says iterate must reject.
Rejected(itemsArg, fnArg, doneArg) ==
  \/ ~itemsArg.isArray
  \/ fnArg # "function"
  \/ doneArg \notin {"function", "undefined"}

\* C13 for one call: iterate throws exactly for the rejected arguments; a
\* throwing call invokes neither fn nor done and hands out no handle; an
\* omitted done is accepted and noop is registered in its place.
C13_IterateCall ==
  \A itemsArg \in ItemsArgs, fnArg \in FnArgs, doneArg \in DoneArgs :
    IterateWith(itemsArg, fnArg, doneArg) =>
      /\ last'.threw = Rejected(itemsArg, fnArg, doneArg)
      /\ last'.threw =>
           /\ stepLog' = <<>>
           /\ doneLog' = <<>>
           /\ Len(handles') = Len(handles)
      /\ (~Rejected(itemsArg, fnArg, doneArg) /\ doneArg = "undefined") => done' = noop

\* C13: validation errors are raised synchronously and before any callback.
C13_ValidationErrors == [][C13_IterateCall]_vars

\* An iterate call was rejected for its done argument alone, with a
\* non-empty array and a callable fn already stored, while an earlier
\* handle exists.
C13_Witness ==
  /\ last.op = "iterate" /\ last.threw
  /\ ~itemsNull /\ items # <<>> /\ fn = run /\ done = Null
  /\ stepLog = <<>> /\ handles # <<>>

\* ------------------------------------------------------------------ C14
\* The call being made leaves every position of items other than i as it
\* was (positions past the end read as undefined).
OnlyPositionWritten(i) ==
  \A j \in 0 .. (Len(items) + Len(items')) :
    j # i => ArrayGet(items', j) = ArrayGet(items, j)

\* C14 for one call: next(v) on a handle minted for index i writes position
\* i and no other, also when the handle was invoked before.  (Within one
\* run: no handle of an earlier run involved.)
C14_NextWritesOwnIndex ==
  \A h \in CurHandles :
    (ValidRun /\ ~StaleInvoked /\ InvokesNext(h)) =>
      /\ OnlyPositionWritten(handles[h].mint)
      /\ (~isAborted /\ last'.v # Undef) => ArrayGet(items', handles[h].mint) = last'.v

\* C14: every overwrite through a next handle hits the handle's own index.
C14_AdvanceBoundToIndex == [][C14_NextWritesOwnIndex]_vars

\* ------------------------------------------------------------------ C15
\* C15 for one call: abort(v) on a handle minted for index i leaves every
\* position other than i as it was and, when v is defined and items is an
\* array, stores v at position i, however often the handle's next was
\* invoked before.
C15_AbortWritesOwnIndex ==
  \A h \in DOMAIN handles :
    InvokesAbort(h) =>
      /\ OnlyPositionWritten(handles[h].mint)
      /\ (~itemsNull /\ last'.v # Undef) => ArrayGet(items', handles[h].mint) = last'.v

\* C15: every overwrite through an abort handle hits the handle's own index.
C15_AbortBoundToIndex == [][C15_AbortWritesOwnIndex]_vars

\* abort(v) has just been invoked on a handle whose next had already moved
\* the walk on: v is at the handle's own index, which it changed, and the
\* index next had reached is untouched.
C15_Witness ==
  /\ last.op = "abort" /\ last.v # Undef /\ ~last.threw /\ ValidRun
  /\ handles[last.h].run = run
  /\ handles[last.h].i > handles[last.h].mint
  /\ handles[last.h].i < Len(items)
  /\ ArrayGet(items, handles[last.h].mint) = last.v
  /\ ArrayGet(orig, handles[last.h].mint) # last.v
  /\ ArrayGet(items, handles[last.h].i) # last.v

\* ------------------------------------------------------------------ C16
\* Some abort handle has been invoked since the latest iterate call.
AbortInvoked ==
  \E h \in DOMAIN handles : \E k \in DOMAIN handles[h].calls : handles[h].calls[k].op = "abort"

\* C16 for one call: once an abort handle has been invoked in the run, a
\* next invocation, with or without a value, changes nothing: not items,
\* not the steps dispatched, not the done invocations, not the flag.
C16_NextAfterAbort ==
  \A h \in DOMAIN handles :
    (AbortInvoked /\ InvokesNext(h)) =>
      /\ items' = items /\ itemsNull' = itemsNull
      /\ stepLog' = stepLog
      /\ doneLog' = doneLog
      /\ isAborted' = isAborted
      /\ ~last'.threw

\* C16: next is a no-op after an abort.
C16_AdvanceInertAfterAbort == [][C16_NextAfterAbort]_vars

\* next(v) with a defined v has just been invoked, after an abort, on a
\* handle whose step was still unanswered in a run with elements left.
C16_Witness ==
  /\ last.op = "next" /\ last.v # Undef /\ AbortInvoked /\ ObservedRun
  /\ handles[last.h].run = run
  /\ Len(handles[last.h].calls) = 1
  /\ handles[last.h].mint + 1 < Len(items)
  /\ Len(doneLog) = 1

\* ------------------------------------------------------------------ C17
\* C17 for one call: abort(v) invoked after the run has ended (done already
\* invoked, or the run already aborted) still sets isAborted, still stores
\* a defined v at its own index, and still invokes done once more.
C17_AbortAfterEnd ==
  \A h \in CurHandles :
    (ObservedRun /\ RunEnded /\ InvokesAbort(h)) =>
      /\ isAborted'
      /\ last'.v # Undef => ArrayGet(items', handles[h].mint) = last'.v
      /\ Len(doneLog') = Len(doneLog) + 1
      /\ doneLog'[Len(doneLog')].items = items'

\* C17: abort acts unconditionally.
C17_AbortUnconditional == [][C17_AbortAfterEnd]_vars

\* done has been invoked three times in one run: by the last next, and by
\* two later aborts, the latest with a value that changed its element.
C17_Witness ==
  /\ ObservedRun /\ ~StaleInvoked /\ Len(doneLog) = 3
  /\ last.op = "abort" /\ last.v # Undef
  /\ doneLog[1].items # doneLog[3].items
  /\ \E h \in CurHandles : handles[h].calls[1].op = "next"

\* ------------------------------------------------------------------ C18
\* C18 as stated, for one call: while the run is aborted, no handle
\* invocation changes an element of items or dispatches a step.
C18_FrozenStep ==
  \A h \in DOMAIN handles :
    (ValidRun /\ isAborted /\ Invokes(h)) =>
      /\ items' = items
      /\ stepLog' = stepLog

\* C18 as stated: from the first abort on, items and the visited indices are
\* frozen.
C18_FrozenAfterAbort == [][C18_FrozenStep]_vars

\* C18 amended, for one call: while the run is aborted no handle invocation
\* dispatches a step and no next invocation changes items; an abort
\* invocation changes at most the element at its own index.
C18_AmendedStep ==
  \A h \in DOMAIN handles :
    (ValidRun /\ isAborted /\ Invokes(h)) =>
      /\ stepLog' = stepLog
      /\ Len(handles') = Len(handles)
      /\ isAborted'
      /\ last'.op = "next" => items' = items
      /\ last'.op = "abort" => OnlyPositionWritten(handles[h].mint)

\* C18 amended.
C18_NoAdvanceAfterAbort == [][C18_AmendedStep]_vars

\* In an aborted run with elements left, a next with a value and then an
\* abort with a value were invoked: only the abort's own index changed.
C18_Witness ==
  /\ ObservedRun /\ ~StaleInvoked /\ Len(orig) >= 2
  /\ last.op = "abort" /\ last.v # Undef
  /\ Len(doneLog) = 2
  /\ doneLog[1].items # doneLog[2].items
  /\ Len(stepLog) = 1
  /\ \E h \in CurHandles : handles[h].calls = <<[op |-> "abort", v |-> Undef],
                                               [op |-> "next", v |-> last.v],
                                               [op |-> "abort", v |-> last.v]>>

\* ------------------------------------------------------------------ C19
\* C19: once a later iterate call has succeeded (a handle of an earlier call
\* exists), every fn invocation and every done invocation made since the
\* latest iterate call is of the fn / done registered by the latest
\* successful iterate call.
C19_LatestRegistrationOnly ==
  (\E h \in DOMAIN handles : handles[h].run < okRun) =>
     /\ \A k \in DOMAIN stepLog : stepLog[k].fn = okRun
     /\ \A k \in DOMAIN doneLog : doneLog[k].done = okRun

====
